---- MODULE Spec2Model ----
(***************************************************************************)
(* Session state machine of the LLTF hardware class (src/lltfpy/lltf.py). *)
(*                                                                         *)
(* The vendor library is an environment: every native entry point returns  *)
(* a status the model draws from NativeStatus.  The ctypes marshalling     *)
(* (argtypes / restype / byref) is abstracted; what is modelled is the     *)
(* control flow of LLTF around the native calls, the value of              *)
(* self._handle, and the per-handle history of the native library.         *)
(*                                                                         *)
(* One invocation of a method is one action.  The statuses the library     *)
(* returns during the invocation are an oracle o (one status per native    *)
(* entry point: no method invokes an entry point twice), and the methods   *)
(* are operators from the machine record m and the oracle to a result      *)
(* record [m, exc, msg, kind, val].                                        *)
(***************************************************************************)
EXTENDS Integers, Sequences, FiniteSets, TLC

\* ---------------------------------------------------------------- PE_STATUS
PE_SUCCESS == 0
PE_INVALID_HANDLE == 1
PE_FAILURE == 2
PE_INVALID_WAVELENGTH == 5

\* self._handle = None
None == 0

\* ------------------------------------------------------------------- bounds
\* number of handles the native library hands out in one behaviour
MaxHandles == 2
\* number of PE_Close invocations on one handle in one behaviour
MaxCloseCalls == 2
\* largest raw status code the native library returns
MaxCode == 99
\* number of HTTP requests in one behaviour
MaxRequests == 2
\* number of threads working on one object
MaxThreads == 2
\* number of calls one thread makes on a socket
MaxCalls == 2

Handles == 1..MaxHandles

\* statuses the native stub returns: the code only tests a status against
\* PE_SUCCESS, so PE_FAILURE stands for the non-success codes, next to the two
\* codes the teardown and the set path are specified to distinguish
NativeStatus == {PE_SUCCESS, PE_FAILURE}
CloseStatus == {PE_SUCCESS, PE_INVALID_HANDLE, PE_FAILURE}
SetStatus == {PE_SUCCESS, PE_INVALID_WAVELENGTH, PE_FAILURE}

\* wavelengths a caller requests (nm)
Wavelengths == {600, 1000}
\* calibration offset of the device after a successful native set (nm)
Drifts == {0, 1}

VARIABLES
    handle,   \* self._handle: None or the handle PE_Create produced
    nextH,    \* native library: number of handles created so far
    nat,      \* native library: per-handle history
    wave,     \* device: central wavelength (nm)
    last,     \* the last completed invocation: method, argument, outcome,
              \* the native calls it made, the records it logged, the value
              \* of self._handle when it started (before), and whether the
              \* invocation before it was an _open() that returned (afterOpen)
    tr,       \* a raw status code on its way through the translation layer
    srv,      \* the HTTP requests: for each one the sender's and the serving
              \* thread's position, the JSON body and the response
    gr,       \* three native statuses on their way through grating()'s check
    thr,      \* the serving threads inside _open(): position and local variables
    sock      \* one RLockSocket: its lock and the threads calling its methods

vars == <<handle, nextH, nat, wave, last, tr, srv, gr, thr, sock>>

\* ------------------------------------------------------------ native library
FreshNat == [opened |-> FALSE, closeCalls |-> 0, closed |-> FALSE,
             destroyCalls |-> 0, destroyed |-> FALSE]

\* keys of the oracle: the native entry points that return a PE_STATUS, and
\* the calibration offset of the device
StatusFns == {"PE_Create", "PE_GetSystemName", "PE_Open", "PE_Close",
              "PE_Destroy", "PE_SetWavelength", "PE_GetWavelength",
              "PE_GetWavelengthRange", "PE_GetGrating", "PE_GetGratingName",
              "PE_getGratingCount", "pe_GetHarmonicFilterEnabled"}
OracleKeys == StatusFns \cup {"drift"}
Dom(key) ==
    CASE key = "drift" -> Drifts
      [] key = "PE_Close" -> CloseStatus
      [] key = "PE_SetWavelength" -> SetStatus
      [] OTHER -> NativeStatus
ZeroOracle == [k \in OracleKeys |-> 0]

\* one native call: recorded in the invocation's trace, its oracle key consumed
Call(m, fn, h, arg, st) ==
    [m EXCEPT !.calls = Append(@, [fn |-> fn, h |-> h, arg |-> arg, st |-> st]),
              !.keys = Append(@, fn)]

\* the name the stub returns for system `index` of handle h
SystemName(h, index) == 10 * h + index

PE_Create(m, o) ==
    LET st == o["PE_Create"] IN
    IF st = PE_SUCCESS
    THEN Call([m EXCEPT !.nextH = @ + 1], "PE_Create", m.nextH + 1, 0, st)
    ELSE Call(m, "PE_Create", None, 0, st)

PE_GetSystemName(m, h, index, o) ==
    Call(m, "PE_GetSystemName", h, index, o["PE_GetSystemName"])

PE_Open(m, h, name, o) ==
    LET st == o["PE_Open"]
        m1 == IF st = PE_SUCCESS /\ h \in Handles
              THEN [m EXCEPT !.nat[h].opened = TRUE] ELSE m
    IN  Call(m1, "PE_Open", h, name, st)

PE_Close(m, h, o) ==
    LET st == o["PE_Close"]
        m1 == IF h \in Handles
              THEN [m EXCEPT !.nat[h].closeCalls = @ + 1,
                             !.nat[h].closed = @ \/ (st = PE_SUCCESS)]
              ELSE m
    IN  Call(m1, "PE_Close", h, 0, st)

PE_Destroy(m, h, o) ==
    LET st == o["PE_Destroy"]
        m1 == IF h \in Handles
              THEN [m EXCEPT !.nat[h].destroyCalls = @ + 1,
                             !.nat[h].destroyed = @ \/ (st = PE_SUCCESS)]
              ELSE m
    IN  Call(m1, "PE_Destroy", h, 0, st)

PE_SetWavelength(m, h, w, o) ==
    LET st == o["PE_SetWavelength"]
        m1 == Call(m, "PE_SetWavelength", h, w, st)
    IN  IF st = PE_SUCCESS
        THEN [m1 EXCEPT !.wave = w + o["drift"], !.keys = Append(@, "drift")]
        ELSE m1

PE_GetWavelength(m, h, o) ==
    Call(m, "PE_GetWavelength", h, 0, o["PE_GetWavelength"])

PE_GetWavelengthRange(m, h, o) ==
    Call(m, "PE_GetWavelengthRange", h, 0, o["PE_GetWavelengthRange"])

PE_GetGrating(m, h, o) ==
    Call(m, "PE_GetGrating", h, 0, o["PE_GetGrating"])

PE_GetGratingName(m, h, gindex, o) ==
    Call(m, "PE_GetGratingName", h, gindex, o["PE_GetGratingName"])

PE_getGratingCount(m, h, o) ==
    Call(m, "PE_getGratingCount", h, 0, o["PE_getGratingCount"])

pe_GetHarmonicFilterEnabled(m, h, o) ==
    Call(m, "pe_GetHarmonicFilterEnabled", h, 0, o["pe_GetHarmonicFilterEnabled"])

\* the entry points that return an int, not a PE_STATUS: recorded in the
\* trace, no oracle key
CallInt(m, fn, h) ==
    [m EXCEPT !.calls = Append(@, [fn |-> fn, h |-> h, arg |-> 0, st |-> PE_SUCCESS])]

\* the data the stub writes to the out-parameters
StubRange == <<400, 1000>>
StubGrating == <<0, 70, 1>>
StubHarmonic == <<1, 0>>
StubSystem == <<3, 1>>

\* ------------------------------------------------------------ result records
\* getLogger().debug(text)
Debug(m, text) == [m EXCEPT !.log = Append(@, [level |-> "DEBUG", text |-> text])]

Return(m, kind, val) ==
    [m |-> m, exc |-> "", msg |-> "", kind |-> kind, val |-> val]

Raise(m, exc, msg) ==
    [m |-> m, exc |-> exc, msg |-> msg, kind |-> "raise", val |-> <<>>]

\* _open calling the native create a second time when it failed
_open_retrycreate(m, index, o) ==
    IF m.handle = None
    THEN LET m1 == PE_Create(m, o) IN
         IF o["PE_Create"] # PE_SUCCESS
         THEN Raise(PE_Create(m1, o), "LLTFError", "Could not create connection to LLTF.")
         ELSE LET peHandle == m1.nextH
                  m2 == PE_GetSystemName(m1, peHandle, index, o) IN
              IF o["PE_GetSystemName"] # PE_SUCCESS
              THEN Raise(m2, "LLTFError", "Could not retrieve LLTF name.")
              ELSE LET name == SystemName(peHandle, index)
                       m3 == PE_Open(m2, peHandle, name, o) IN
                   IF o["PE_Open"] # PE_SUCCESS
                   THEN Raise(m3, "LLTFError", "Could not open connection to LLTF.")
                   ELSE Return([m3 EXCEPT !.handle = peHandle],
                               "tuple", <<peHandle, name>>)
    ELSE Return(Debug(m, "Already open."), "None", <<>>)

\* _open returning the stored handle when the session is already open
_open_reuse(m, index, o) ==
    IF m.handle = None
    THEN LET m1 == PE_Create(m, o) IN
         IF o["PE_Create"] # PE_SUCCESS
         THEN Raise(m1, "LLTFError", "Could not create connection to LLTF.")
         ELSE LET peHandle == m1.nextH
                  m2 == PE_GetSystemName(m1, peHandle, index, o) IN
              IF o["PE_GetSystemName"] # PE_SUCCESS
              THEN Raise(m2, "LLTFError", "Could not retrieve LLTF name.")
              ELSE LET name == SystemName(peHandle, index)
                       m3 == PE_Open(m2, peHandle, name, o) IN
                   IF o["PE_Open"] # PE_SUCCESS
                   THEN Raise(m3, "LLTFError", "Could not open connection to LLTF.")
                   ELSE Return([m3 EXCEPT !.handle = peHandle],
                               "tuple", <<peHandle, name>>)
    ELSE Return(Debug(m, "Already open."), "tuple",
                <<m.handle, SystemName(m.handle, index)>>)

\* _open storing the handle before the native open was checked
_open_storeearly(m, index, o) ==
    IF m.handle = None
    THEN LET m1 == PE_Create(m, o) IN
         IF o["PE_Create"] # PE_SUCCESS
         THEN Raise(m1, "LLTFError", "Could not create connection to LLTF.")
         ELSE LET peHandle == m1.nextH
                  m2 == PE_GetSystemName(m1, peHandle, index, o) IN
              IF o["PE_GetSystemName"] # PE_SUCCESS
              THEN Raise(m2, "LLTFError", "Could not retrieve LLTF name.")
              ELSE LET name == SystemName(peHandle, index)
                       m3 == PE_Open([m2 EXCEPT !.handle = peHandle], peHandle, name, o) IN
                   IF o["PE_Open"] # PE_SUCCESS
                   THEN Raise(m3, "LLTFError", "Could not open connection to LLTF.")
                   ELSE Return(m3, "tuple", <<peHandle, name>>)
    ELSE Return(Debug(m, "Already open."), "None", <<>>)

\* _open without the test of create_status (a dropped check)
_open_nocreatecheck(m, index, o) ==
    IF m.handle = None
    THEN LET m1 == PE_Create(m, o)
             peHandle == m1.nextH
             m2 == PE_GetSystemName(m1, peHandle, index, o) IN
         IF o["PE_GetSystemName"] # PE_SUCCESS
         THEN Raise(m2, "LLTFError", "Could not retrieve LLTF name.")
         ELSE LET name == SystemName(peHandle, index)
                  m3 == PE_Open(m2, peHandle, name, o) IN
              IF o["PE_Open"] # PE_SUCCESS
              THEN Raise(m3, "LLTFError", "Could not open connection to LLTF.")
              ELSE Return([m3 EXCEPT !.handle = peHandle],
                          "tuple", <<peHandle, name>>)
    ELSE Return(Debug(m, "Already open."), "None", <<>>)

\* ---------------------------------------------------------------- LLTF._open
_open(m, index, o) ==
    IF m.handle = None
    THEN LET m1 == PE_Create(m, o) IN
         IF o["PE_Create"] # PE_SUCCESS
         THEN Raise(m1, "LLTFError", "Could not create connection to LLTF.")
         ELSE LET peHandle == m1.nextH
                  m2 == PE_GetSystemName(m1, peHandle, index, o) IN
              IF o["PE_GetSystemName"] # PE_SUCCESS
              THEN Raise(m2, "LLTFError", "Could not retrieve LLTF name.")
              ELSE LET name == SystemName(peHandle, index)
                       m3 == PE_Open(m2, peHandle, name, o) IN
                   IF o["PE_Open"] # PE_SUCCESS
                   THEN Raise(m3, "LLTFError", "Could not open connection to LLTF.")
                   ELSE Return([m3 EXCEPT !.handle = peHandle],
                               "tuple", <<peHandle, name>>)
    ELSE Return(Debug(m, "Already open."), "None", <<>>)

\* _close that treats an absent handle as an error instead of a logged no-op
_close_raises(m, o) ==
    IF m.handle # None
    THEN LET peHandle == m.handle
             m1 == PE_Close(m, peHandle, o) IN
         IF o["PE_Close"] # PE_SUCCESS
         THEN Raise(m1, "LLTFError", "Could not close system.")
         ELSE LET m2 == PE_Destroy(m1, peHandle, o) IN
              IF o["PE_Destroy"] # PE_SUCCESS
              THEN Raise(m2, "LLTFError", "Could not destroy system.")
              ELSE Return([m2 EXCEPT !.handle = None], "None", <<>>)
    ELSE Raise(m, "LLTFError", "Already closed.")

\* _close with the two native calls in the other order
_close_destroyfirst(m, o) ==
    IF m.handle # None
    THEN LET peHandle == m.handle
             m1 == PE_Destroy(m, peHandle, o) IN
         IF o["PE_Destroy"] # PE_SUCCESS
         THEN Raise(m1, "LLTFError", "Could not destroy system.")
         ELSE LET m2 == PE_Close(m1, peHandle, o) IN
              IF o["PE_Close"] # PE_SUCCESS
              THEN Raise(m2, "LLTFError", "Could not close system.")
              ELSE Return([m2 EXCEPT !.handle = None], "None", <<>>)
    ELSE Return(Debug(m, "Already closed."), "None", <<>>)

\* --------------------------------------------------------------- LLTF._close
_close(m, o) ==
    IF m.handle # None
    THEN LET peHandle == m.handle
             m1 == PE_Close(m, peHandle, o) IN
         IF o["PE_Close"] # PE_SUCCESS
         THEN Raise(m1, "LLTFError", "Could not close system.")
         ELSE LET m2 == PE_Destroy(m1, peHandle, o) IN
              IF o["PE_Destroy"] # PE_SUCCESS
              THEN Raise(m2, "LLTFError", "Could not destroy system.")
              ELSE Return([m2 EXCEPT !.handle = None], "None", <<>>)
    ELSE Return(Debug(m, "Already closed."), "None", <<>>)

\* get_wave dropping the handle when the native call failed
get_wave_closes(m, o) ==
    LET peHandle == m.handle
        m1 == PE_GetWavelength(m, peHandle, o) IN
    IF o["PE_GetWavelength"] # PE_SUCCESS
    THEN Raise([m1 EXCEPT !.handle = None], "LLTFError", "Could not retrieve wavelength.")
    ELSE Return(m1, "value", <<m1.wave>>)

\* ------------------------------------------------------------- LLTF.get_wave
get_wave(m, o) ==
    LET peHandle == m.handle
        m1 == PE_GetWavelength(m, peHandle, o) IN
    IF o["PE_GetWavelength"] # PE_SUCCESS
    THEN Raise(m1, "LLTFError", "Could not retrieve wavelength.")
    ELSE Return(m1, "value", <<m1.wave>>)

\* ------------------------------------------------------ LLTF.library_version
library_version(m) ==
    Return(CallInt(m, "PE_GetLibraryVersion", None), "value", <<StubSystem[1]>>)

\* --------------------------------------------------------- LLTF.system_count
system_count(m) ==
    LET peHandle == m.handle IN
    Return(CallInt(m, "PE_GetSystemCount", peHandle), "value", <<StubSystem[2]>>)

\* ------------------------------------------------------------ LLTF.get_range
get_range(m, o) ==
    LET peHandle == m.handle
        m1 == PE_GetWavelengthRange(m, peHandle, o) IN
    IF o["PE_GetWavelengthRange"] # PE_SUCCESS
    THEN Raise(m1, "LLTFError", "Could not retrieve wavelength range.")
    ELSE Return(m1, "tuple", StubRange)

\* -------------------------------------------------------------- LLTF.grating
\* truth value of a PE_STATUS in a Python condition
Truthy(status) == status # 0

\* grating() looking at the status of the last native call only
grating_countonly(m, o) ==
    LET peHandle == m.handle
        m1 == PE_GetGrating(m, peHandle, o)
        gindex == StubGrating[1]
        m2 == PE_GetGratingName(m1, peHandle, gindex, o)
        m3 == PE_getGratingCount(m2, peHandle, o)
        gratingcountstatus == o["PE_getGratingCount"]
    IN  IF gratingcountstatus # PE_SUCCESS
        THEN Raise(m3, "LLTFError", "Could not retrieve grating.")
        ELSE Return(m3, "tuple", StubGrating)

grating(m, o) ==
    LET peHandle == m.handle
        m1 == PE_GetGrating(m, peHandle, o)
        getgratingstatus == o["PE_GetGrating"]
        gindex == StubGrating[1]
        m2 == PE_GetGratingName(m1, peHandle, gindex, o)
        gratingnamestatus == o["PE_GetGratingName"]
        m3 == PE_getGratingCount(m2, peHandle, o)
        gratingcountstatus == o["PE_getGratingCount"]
    IN  IF \/ Truthy(getgratingstatus)
           \/ Truthy(gratingnamestatus)
           \/ gratingcountstatus # PE_SUCCESS
        THEN Raise(m3, "LLTFError", "Could not retrieve grating.")
        ELSE Return(m3, "tuple", StubGrating)

\* harmonic_filter without the test of the native status
harmonic_filter_unchecked(m, o) ==
    LET peHandle == m.handle
        m1 == CallInt(m, "PE_HasHarmonicFilter", peHandle)
        m2 == pe_GetHarmonicFilterEnabled(m1, peHandle, o) IN
    Return(m2, "tuple", StubHarmonic)

\* ------------------------------------------------------ LLTF.harmonic_filter
harmonic_filter(m, o) ==
    LET peHandle == m.handle
        m1 == CallInt(m, "PE_HasHarmonicFilter", peHandle)
        m2 == pe_GetHarmonicFilterEnabled(m1, peHandle, o) IN
    IF o["pe_GetHarmonicFilterEnabled"] # PE_SUCCESS
    THEN Raise(m2, "LLTFError", "Could not find harmonic filter status.")
    ELSE Return(m2, "tuple", StubHarmonic)

\* ------------------------------------- LLTF.grating_wave (lltf_merged.py)
\* the method takes no grating index: a call that passes gratingIndex (kw = 1)
\* fails at the call; the body names the undefined `gratingindex` while it
\* evaluates the arguments of its first native call, before the call is made
grating_wave(m, kw) ==
    IF kw = 1
    THEN Raise(m, "TypeError", "grating_wave() got an unexpected keyword argument 'gratingIndex'")
    ELSE Raise(m, "NameError", "name 'gratingindex' is not defined")

\* ------------------------------------------------------------ try / except
Ok(r) == r.exc = ""

\* a call of one of the query methods
Query(op, m, o) ==
    CASE op = "library_version" -> library_version(m)
      [] op = "system_count" -> system_count(m)
      [] op = "get_wave" -> get_wave(m, o)
      [] op = "get_range" -> get_range(m, o)
      [] op = "grating" -> grating(m, o)
      [] op = "harmonic_filter" -> harmonic_filter(m, o)

\* the next statement of a try block, `x = self.op()`: skipped once an
\* exception is raised, its value kept with the earlier ones
Gather(val, q) == IF Ok(q) THEN [q EXCEPT !.val = val \o q.val] ELSE q
Collect(r, op, o) == IF Ok(r) THEN Gather(r.val, Query(op, r.m, o)) ELSE r

\* `self._handle, name = self._open()`: unpacking None raises TypeError before
\* anything is assigned
Unpack(r) ==
    IF ~Ok(r) THEN r
    ELSE IF r.kind = "None"
         THEN Raise(r.m, "TypeError", "cannot unpack non-iterable NoneType object")
         ELSE Return([r.m EXCEPT !.handle = r.val[1]], "tuple", <<r.val[2]>>)

\* `except: close = True` then `finally: if close: self._close()` and
\* `return False`: the exception is dropped, one raised by _close propagates
CloseResult(c) == IF Ok(c) THEN Return(c.m, "False", <<>>) ELSE c
ExceptClose(r, o) == CloseResult(_close(r.m, o))

\* --------------------------------------------------------------- LLTF.status
\* `return True, status` when the try block ran through, the except path
\* otherwise
StatusReturn(r, o) ==
    IF Ok(r) THEN Return(r.m, "status", r.val) ELSE ExceptClose(r, o)

\* the value: <<system_name, library_version, system_count,
\* central_wavelength, range_minimum, range_maximum, grating_index,
\* grating_name, grating_count, harmonic_filter_availability,
\* harmonic_filter_status>>
status(m, o) ==
    StatusReturn(
        Collect(Collect(Collect(Collect(Collect(Collect(
            Unpack(_open(m, 0, o)),
            "library_version", o),
            "system_count", o),
            "get_wave", o),
            "get_range", o),
            "grating", o),
            "harmonic_filter", o),
        o)

\* ------------------------------------------------------------- LLTF.set_wave
\* `peHandle = self._handle`, `status = pe_SetWavelength(peHandle,
\* wavelength)` and its test
CheckSet(m, o) ==
    IF o["PE_SetWavelength"] # PE_SUCCESS
    THEN Raise(m, "LLTFError", "Could not set wavelength.")
    ELSE Return(m, "None", <<>>)

SetWavelength(r, wavelength, o) ==
    IF ~Ok(r) THEN r
    ELSE CheckSet(PE_SetWavelength(r.m, r.m.handle, wavelength, o), o)

\* `if new_wave != wavelength: raise ... else: return True`
Verify(r, wavelength) ==
    IF ~Ok(r) THEN r
    ELSE IF r.val[1] # wavelength
         THEN Raise(r.m, "LLTFError", "Calibration could not occur.")
         ELSE Return(r.m, "True", <<>>)

SetWaveReturn(r, o) == IF Ok(r) THEN r ELSE ExceptClose(r, o)

set_wave(m, wavelength, o) ==
    SetWaveReturn(
        Verify(
            Collect(
                SetWavelength(Unpack(_open(m, 0, o)), wavelength, o),
                "get_wave", o),
            wavelength),
        o)

\* ------------------------------------------------------------------- machine
\* the machine record a method starts from: the object's and the library's
\* state, with an empty trace
Machine ==
    [handle |-> handle, nextH |-> nextH, nat |-> nat, wave |-> wave,
     calls |-> <<>>, log |-> <<>>, keys |-> <<>>]

Run(op, arg, o) ==
    CASE op = "_open"    -> _open(Machine, 0, o)
      [] op = "_close"   -> _close(Machine, o)
      [] op = "status"   -> status(Machine, o)
      [] op = "set_wave" -> set_wave(Machine, arg, o)
      [] op = "grating_wave" -> grating_wave(Machine, arg)
      [] OTHER -> Query(op, Machine, o)

\* the oracles of one invocation: every status the library can return at each
\* native call the invocation makes, and 0 at the entry points it never calls
RECURSIVE Oracles(_, _, _, _)
Extend(op, arg, o, i, keys) ==
    IF i > Len(keys) THEN {o}
    ELSE UNION { Oracles(op, arg, [o EXCEPT ![keys[i]] = s], i + 1) : s \in Dom(keys[i]) }
Oracles(op, arg, o, i) == Extend(op, arg, o, i, Run(op, arg, o).m.keys)

\* the bounds: a handle is left to create, and no handle is closed too often
CanCreate == IF handle # None THEN TRUE ELSE nextH < MaxHandles
CanClose == IF handle = None THEN TRUE ELSE nat[handle].closeCalls < MaxCloseCalls

\* the invocation's result becomes the object's and the library's state
Effect(op, arg, r) ==
    /\ handle' = r.m.handle
    /\ nextH' = r.m.nextH
    /\ nat' = r.m.nat
    /\ wave' = r.m.wave
    /\ last' = [op |-> op, arg |-> arg, exc |-> r.exc, msg |-> r.msg,
                kind |-> r.kind, val |-> r.val,
                calls |-> r.m.calls, log |-> r.m.log,
                before |-> handle,
                afterOpen |-> last.op = "_open" /\ last.kind = "tuple"]

\* an invocation made on the object directly
Complete(op, arg, r) ==
    /\ Effect(op, arg, r)
    /\ tr' = tr
    /\ srv' = srv
    /\ gr' = gr
    /\ UNCHANGED <<thr, sock>>

\* the oracles of one invocation, from the all-success one
Outcomes(op, arg) == Oracles(op, arg, ZeroOracle, 1)

\* the session after LLTF.__init__
Constructed ==
    /\ handle = None
    /\ nextH = 0
    /\ nat = [h \in Handles |-> FreshNat]
    /\ wave \in Wavelengths
    /\ last = [op |-> "init", arg |-> 0, exc |-> "", msg |-> "",
               kind |-> "None", val |-> <<>>, calls |-> <<>>, log |-> <<>>,
               before |-> None, afterOpen |-> FALSE]

Requests == 1..MaxRequests

Threads == 1..MaxThreads

\* a thread that has not entered _open()
NoThread == [pc |-> "idle", peHandle |-> None, name |-> 0, exc |-> ""]
\* a thread that has not called a method of the socket
NoCaller == [pc |-> "idle", op |-> "", out |-> "", calls |-> 0]
\* no RLockSocket under test
NoSocket == [owner |-> 0, count |-> 0, th |-> [t \in Threads |-> NoCaller]]

\* no statuses under test
NoStatuses == [stage |-> "idle", a |-> 0, b |-> 0, c |-> 0, exc |-> "", val |-> <<>>]

\* a request nobody has sent yet
NoRequest ==
    [cpc |-> "idle", pc |-> "none", via |-> "", command |-> "", key |-> "",
     value |-> 0, ran |-> 0, kind |-> "", code |-> 0, text |-> "",
     cret |-> "", cexc |-> "", cmsg |-> ""]

Init ==
    /\ Constructed
    /\ tr = [code |-> 0, stage |-> "idle", exc |-> "", text |-> ""]
    /\ srv = [r \in Requests |-> NoRequest]
    /\ gr = NoStatuses
    /\ thr = [t \in Threads |-> NoThread]
    /\ sock = NoSocket

OpenCall ==
    /\ CanCreate
    /\ \E o \in Outcomes("_open", 0) : Complete("_open", 0, Run("_open", 0, o))

CloseCall ==
    /\ CanClose
    /\ \E o \in Outcomes("_close", 0) : Complete("_close", 0, Run("_close", 0, o))

StatusCall ==
    /\ CanCreate
    /\ CanClose
    /\ \E o \in Outcomes("status", 0) : Complete("status", 0, Run("status", 0, o))

SetWaveCall ==
    /\ CanCreate
    /\ CanClose
    /\ \E w \in Wavelengths :
           \E o \in Outcomes("set_wave", w) : Complete("set_wave", w, Run("set_wave", w, o))

LibraryVersionCall ==
    \E o \in Outcomes("library_version", 0) :
        Complete("library_version", 0, Run("library_version", 0, o))

SystemCountCall ==
    \E o \in Outcomes("system_count", 0) :
        Complete("system_count", 0, Run("system_count", 0, o))

GetWaveCall ==
    \E o \in Outcomes("get_wave", 0) : Complete("get_wave", 0, Run("get_wave", 0, o))

GetRangeCall ==
    \E o \in Outcomes("get_range", 0) : Complete("get_range", 0, Run("get_range", 0, o))

GratingCall ==
    \E o \in Outcomes("grating", 0) : Complete("grating", 0, Run("grating", 0, o))

HarmonicFilterCall ==
    \E o \in Outcomes("harmonic_filter", 0) :
        Complete("harmonic_filter", 0, Run("harmonic_filter", 0, o))

GratingWaveCall ==
    \E kw \in {0, 1} :
        \E o \in Outcomes("grating_wave", kw) :
            Complete("grating_wave", kw, Run("grating_wave", kw, o))

Next ==
    \/ OpenCall
    \/ CloseCall
    \/ StatusCall
    \/ SetWaveCall
    \/ LibraryVersionCall
    \/ SystemCountCall
    \/ GetWaveCall
    \/ GetRangeCall
    \/ GratingCall
    \/ HarmonicFilterCall
    \/ GratingWaveCall

Spec == Init /\ [][Next]_vars

\* the LLTF object and the library behind it
session == <<handle, nextH, nat, wave, last>>

\* ------------------------------------------------- status-code translation
\* the raw codes a native call can return
Codes == 0..MaxCode
\* the values of PE_STATUS
Enumerated == 0..13

\* PE_STATUS(code), the conversion ctypes applies to a native return value
\* (restype = PE_STATUS): an IntEnum lookup, which raises for a value that is
\* no member
PE_STATUS(code) ==
    IF code \in Enumerated
    THEN [code |-> code, stage |-> "status", exc |-> "", text |-> ""]
    ELSE [code |-> code, stage |-> "status", exc |-> "ValueError", text |-> ""]

\* PE_STATUS.from_param, applied to the argument of PE_GetStatusStr
\* (argtypes = [PE_STATUS]): `is_instance` is not defined
from_param(obj) == "NameError"

\* LLTFContrast.LLTF_StatusStr: the description comes from the native
\* PE_GetStatusStr, after the argument went through from_param
LLTF_StatusStr(pestatuscode) ==
    IF from_param(pestatuscode) # ""
    THEN [code |-> pestatuscode, stage |-> "described",
          exc |-> from_param(pestatuscode), text |-> ""]
    ELSE [code |-> pestatuscode, stage |-> "described",
          exc |-> "", text |-> "PE_GetStatusStr"]

InitStatus ==
    /\ Constructed
    /\ srv = [r \in Requests |-> NoRequest]
    /\ gr = NoStatuses
    /\ thr = [t \in Threads |-> NoThread]
    /\ sock = NoSocket
    /\ tr \in {[code |-> c, stage |-> "raw", exc |-> "", text |-> ""] : c \in Codes}

Convert ==
    /\ tr.stage = "raw"
    /\ tr' = PE_STATUS(tr.code)
    /\ UNCHANGED <<handle, nextH, nat, wave, last, srv, gr, thr, sock>>

StatusStr ==
    /\ tr.stage = "status"
    /\ tr.exc = ""
    /\ tr' = LLTF_StatusStr(tr.code)
    /\ UNCHANGED <<handle, nextH, nat, wave, last, srv, gr, thr, sock>>

NextStatus ==
    \/ Convert
    \/ StatusStr

SpecStatus == InitStatus /\ [][NextStatus]_vars

\* ===================================================================== claims
\* the native calls of the last invocation
CallIdx(fn) == {i \in DOMAIN last.calls : last.calls[i].fn = fn}
Called(fn) == CallIdx(fn) # {}
Failed(fn) == \E i \in CallIdx(fn) : last.calls[i].st # PE_SUCCESS
Succeeded(fn) == \E i \in CallIdx(fn) : last.calls[i].st = PE_SUCCESS
CallsOn(fn, h) == Cardinality({i \in CallIdx(fn) : last.calls[i].h = h})
\* the handle PE_Create produced in the last invocation
CreatedHandle == last.calls[CHOOSE i \in CallIdx("PE_Create") : TRUE].h
\* the handles PE_Create has produced so far
Created == 1..nextH
QueryOps == {"get_wave", "get_range", "grating", "harmonic_filter", "system_count"}

\* C1: when _open() fails at the name-retrieval step (PE_Create succeeded,
\* PE_GetSystemName did not), PE_Destroy has been invoked exactly once on the
\* created handle before the error propagates, and the session is CLOSED.
C1_NameFailureDestroysHandle ==
    (last.op = "_open" /\ Succeeded("PE_Create") /\ Failed("PE_GetSystemName")) =>
        /\ last.exc = "LLTFError"
        /\ CallsOn("PE_Destroy", CreatedHandle) = 1
        /\ handle = None

\* C2: whenever the session is CLOSED between invocations, PE_Destroy has been
\* invoked on every handle PE_Create produced: no handle is leaked.
C2_NoLeakWhenClosed ==
    handle = None => \A h \in Created : nat[h].destroyCalls >= 1

\* C3: _close() on an OPEN session leaves the session CLOSED whatever PE_Close
\* and PE_Destroy return, and a non-success status is surfaced as an error.
C3_CloseAlwaysCloses ==
    (last.op = "_close" /\ last.before # None) =>
        /\ handle = None
        /\ (Failed("PE_Close") \/ Failed("PE_Destroy")) => last.exc = "LLTFError"

\* C4: status() leaves the session CLOSED whenever it returns or raises, and
\* PE_Close and PE_Destroy have run on the handle it opened.
C4_StatusLeavesClosed ==
    last.op = "status" =>
        /\ handle = None
        /\ Succeeded("PE_Create") =>
               /\ CallsOn("PE_Close", CreatedHandle) >= 1
               /\ CallsOn("PE_Destroy", CreatedHandle) >= 1

\* C5: set_wave(W) leaves the session CLOSED on every exit path.
C5_SetWaveLeavesClosed ==
    last.op = "set_wave" => handle = None

\* C6: after _open() then _close() the session is CLOSED, and a second _close()
\* makes no native call and raises no error.
C6_OpenCloseClose ==
    [][ /\ (last'.op = "_close" /\ last'.afterOpen) => handle' = None
        /\ (last.op = "_close" /\ last.afterOpen /\ last'.op = "_close") =>
               (last'.calls = <<>> /\ last'.exc = "") ]_vars

\* C7: _close() on a CLOSED session is a no-op: no native call, no error, the
\* session stays CLOSED, and the one log record is the debug trace
\* 'Already closed.'.
C7_CloseWhenClosedIsNoOp ==
    (last.op = "_close" /\ last.before = None) =>
        /\ last.calls = <<>>
        /\ last.exc = ""
        /\ handle = None
        /\ last.log = <<[level |-> "DEBUG", text |-> "Already closed."]>>

\* C7 witness: a _close() on a CLOSED session has run, after a handle had been
\* created by an earlier invocation.
C7_Witness ==
    last.op = "_close" /\ last.before = None /\ nextH > 0

\* C8: a query invoked while the session is CLOSED raises at once and issues
\* no native call with an absent handle.
C8_QueryWhenClosedRejected ==
    (last.op \in QueryOps /\ last.before = None) =>
        /\ last.exc # ""
        /\ \A i \in DOMAIN last.calls : last.calls[i].h # None

\* C9: when PE_Open returns non-success after PE_Create and PE_GetSystemName
\* succeeded, the created handle is destroyed before the error is raised and
\* the session stays CLOSED.
C9_OpenFailureDestroysHandle ==
    (last.op = "_open" /\ Succeeded("PE_GetSystemName") /\ Failed("PE_Open")) =>
        /\ last.exc = "LLTFError"
        /\ last.msg = "Could not open connection to LLTF."
        /\ CallsOn("PE_Destroy", CreatedHandle) >= 1
        /\ handle = None

\* C10: when PE_Create returns non-success, _open() raises 'Could not create
\* connection to LLTF.', the session stays CLOSED with no handle stored, and
\* that _open() issues no further native call.
C10_CreateFailure ==
    (last.op = "_open" /\ Failed("PE_Create")) =>
        /\ last.exc = "LLTFError"
        /\ last.msg = "Could not create connection to LLTF."
        /\ handle = None
        /\ Len(last.calls) = 1

\* C10 witness: an _open() whose PE_Create failed has run on a library that
\* had already produced a handle.
C10_Witness ==
    last.op = "_open" /\ Failed("PE_Create") /\ nextH > 0


\* ------------------------------------------------ grating()'s status check
\* the native library answering grating()'s three calls with a, b and c
GratingOracle(a, b, c) ==
    [ZeroOracle EXCEPT !["PE_GetGrating"] = a, !["PE_GetGratingName"] = b,
                       !["PE_getGratingCount"] = c]

InitGrating ==
    /\ Constructed
    /\ tr = [code |-> 0, stage |-> "idle", exc |-> "", text |-> ""]
    /\ srv = [r \in Requests |-> NoRequest]
    /\ thr = [t \in Threads |-> NoThread]
    /\ sock = NoSocket
    /\ gr \in {[stage |-> "input", a |-> a, b |-> b, c |-> c, exc |-> "", val |-> <<>>] :
                 a \in Enumerated, b \in Enumerated, c \in Enumerated}

\* the outcome of grating() for the statuses under test
Checked(q, res) == [q EXCEPT !.stage = "done", !.exc = res.exc, !.val = res.val]

GratingCheck ==
    /\ gr.stage = "input"
    /\ gr' = Checked(gr, grating(Machine, GratingOracle(gr.a, gr.b, gr.c)))
    /\ UNCHANGED <<session, tr, srv, thr, sock>>

NextGrating == GratingCheck

SpecGrating == InitGrating /\ [][NextGrating]_vars

\* ------------------------------------------- _open() in concurrent threads
\* the native library answering entry point fn with status st
OneStatus(fn, st) == [ZeroOracle EXCEPT ![fn] = st]

\* `if self._handle is None:` and the else branch
ThreadTest ==
    \E t \in Threads :
        /\ thr[t].pc = "idle"
        /\ thr' = [thr EXCEPT ![t].pc = IF handle = None THEN "create" ELSE "done"]
        /\ UNCHANGED <<session, tr, srv, gr, sock>>

\* the thread's position and locals after PE_Create returned st
AfterCreate(q, st, h) ==
    IF st = PE_SUCCESS
    THEN [q EXCEPT !.pc = "name", !.peHandle = h]
    ELSE [q EXCEPT !.pc = "done", !.exc = "Could not create connection to LLTF."]

\* `create_status = pe_Create(conffile, byref(peHandle_i))` and its test
ThreadCreate ==
    \E t \in Threads : \E st \in NativeStatus :
        /\ thr[t].pc = "create"
        /\ nextH < MaxHandles
        /\ nextH' = PE_Create(Machine, OneStatus("PE_Create", st)).nextH
        /\ thr' = [thr EXCEPT ![t] = AfterCreate(thr[t], st, nextH + 1)]
        /\ UNCHANGED <<handle, nat, wave, last, tr, srv, gr, sock>>

\* the thread's position and locals after PE_GetSystemName returned st
AfterName(q, st) ==
    IF st = PE_SUCCESS
    THEN [q EXCEPT !.pc = "open", !.name = SystemName(q.peHandle, 0)]
    ELSE [q EXCEPT !.pc = "done", !.exc = "Could not retrieve LLTF name."]

\* `name_status = pe_GetSystemName(...)` and its test
ThreadGetName ==
    \E t \in Threads : \E st \in NativeStatus :
        /\ thr[t].pc = "name"
        /\ thr' = [thr EXCEPT ![t] = AfterName(thr[t], st)]
        /\ UNCHANGED <<session, tr, srv, gr, sock>>

\* the thread's position after PE_Open returned st
AfterOpen(q, st) ==
    IF st = PE_SUCCESS
    THEN [q EXCEPT !.pc = "assign"]
    ELSE [q EXCEPT !.pc = "done", !.exc = "Could not open connection to LLTF."]

\* `open_status = pe_Open(peHandle, name)` and its test
ThreadOpen ==
    \E t \in Threads : \E st \in NativeStatus :
        /\ thr[t].pc = "open"
        /\ nat' = PE_Open(Machine, thr[t].peHandle, thr[t].name, OneStatus("PE_Open", st)).nat
        /\ thr' = [thr EXCEPT ![t] = AfterOpen(thr[t], st)]
        /\ UNCHANGED <<handle, nextH, wave, last, tr, srv, gr, sock>>

\* `self._handle = peHandle`
ThreadAssign ==
    \E t \in Threads :
        /\ thr[t].pc = "assign"
        /\ handle' = thr[t].peHandle
        /\ thr' = [thr EXCEPT ![t].pc = "done"]
        /\ UNCHANGED <<nextH, nat, wave, last, tr, srv, gr, sock>>

NextThreads ==
    \/ ThreadTest
    \/ ThreadCreate
    \/ ThreadGetName
    \/ ThreadOpen
    \/ ThreadAssign

SpecThreads == Init /\ [][NextThreads]_vars

\* ------------------------------------------------------------- RLockSocket
\* the methods that take the lock
Locked == {"accept", "sendall", "send"}

\* a thread calls accept, sendall or send
SockCall ==
    \E t \in Threads : \E op \in Locked :
        /\ sock.th[t].pc = "idle"
        /\ sock.th[t].calls < MaxCalls
        /\ sock' = [sock EXCEPT !.th[t] = [pc |-> "acquire", op |-> op, out |-> "",
                                           calls |-> @.calls + 1]]
        /\ UNCHANGED <<session, tr, srv, gr, thr>>

\* RLock.acquire without the lock: every thread may enter
Acquirable_nolock(t) == TRUE

\* RLock.acquire: free, or held by the calling thread
Acquirable(t) == sock.owner \in {0, t}

\* `with self.__RLSlock:` entered
SockAcquire ==
    \E t \in Threads :
        /\ sock.th[t].pc = "acquire"
        /\ Acquirable(t)
        /\ sock' = [sock EXCEPT !.owner = t, !.count = @ + 1, !.th[t].pc = "inside"]
        /\ UNCHANGED <<session, tr, srv, gr, thr>>

\* the underlying socket's method returns or raises
SockInner ==
    \E t \in Threads : \E out \in {"returned", "raised"} :
        /\ sock.th[t].pc = "inside"
        /\ sock' = [sock EXCEPT !.th[t].pc = "exit", !.th[t].out = out]
        /\ UNCHANGED <<session, tr, srv, gr, thr>>

\* the with block is left, by the return or by the exception
SockRelease ==
    \E t \in Threads :
        /\ sock.th[t].pc = "exit"
        /\ sock' = [sock EXCEPT !.count = @ - 1,
                                !.owner = IF sock.count = 1 THEN 0 ELSE @,
                                !.th[t].pc = "idle", !.th[t].op = "",
                                !.th[t].out = ""]
        /\ UNCHANGED <<session, tr, srv, gr, thr>>

NextSocket ==
    \/ SockCall
    \/ SockAcquire
    \/ SockInner
    \/ SockRelease

SpecSocket == Init /\ [][NextSocket]_vars

\* ------------------------------------------------- HTTP server and client

\* what requests.post does with the client's address and the network: the
\* default address has no scheme, a server can be down, or the request arrives
Networks == {"schema", "refused", "arrives"}

\* the JSON body of a request and who sends it
Body(q, via, command, key, value) ==
    [q EXCEPT !.via = via, !.command = command, !.key = key, !.value = value]
\* the request reaches the server and the sender waits for the response
Sent(q) == [q EXCEPT !.cpc = "waiting", !.pc = "received"]
\* the sender's call ends with an exception
Raised(q, exc, msg) == [q EXCEPT !.cpc = "done", !.cexc = exc, !.cmsg = msg]

\* requests.post as LLTFClient calls it, with the except clause of the caller
Post(q, net) ==
    CASE net = "schema"  -> Raised(q, "InvalidSchema", "No connection adapters were found")
      [] net = "refused" -> Raised(q, "LLTFError", "HTTPConnectionError")
      [] OTHER           -> Sent(q)

\* LLTFClient.set_wavelength, up to the request being on its way
ClientSetWavelength ==
    \E r \in Requests : \E x \in Wavelengths : \E net \in Networks :
        /\ srv[r].cpc = "idle"
        /\ srv' = [srv EXCEPT ![r] = Post(Body(srv[r], "client", "set_wave", "data", x), net)]
        /\ UNCHANGED <<session, tr, gr, thr, sock>>

\* LLTFClient.status, up to the request being on its way
ClientStatus ==
    \E r \in Requests : \E net \in Networks :
        /\ srv[r].cpc = "idle"
        /\ srv' = [srv EXCEPT ![r] = Post(Body(srv[r], "client", "status", "", 0), net)]
        /\ UNCHANGED <<session, tr, gr, thr, sock>>

\* a POST from any other sender, with the field name the server's parser reads
\* or with a command the parser does not know
HttpPost ==
    \E r \in Requests : \E x \in Wavelengths : \E command \in {"set_wave", "move"} :
        /\ srv[r].cpc = "idle"
        /\ srv' = [srv EXCEPT ![r] = Sent(Body(srv[r], "http", command, "wavelength", x))]
        /\ UNCHANGED <<session, tr, gr, thr, sock>>

\* the response of the request parser to a body it rejects
BadRequest(q, text) == [q EXCEPT !.pc = "responded", !.code = 400, !.text = text]

\* LLTFAPI.post up to the call of the verb: the two parse_args
Parsed(q) ==
    CASE q.command \notin {"status", "set_wave"} ->
             BadRequest(q, "Command must be one of: status, set_wave")
      [] q.command = "set_wave" /\ q.key # "wavelength" ->
             BadRequest(q, "Specify wavelength (nm)")
      [] OTHER -> [q EXCEPT !.pc = "ready"]

Parse ==
    \E r \in Requests :
        /\ srv[r].pc = "received"
        /\ srv' = [srv EXCEPT ![r] = Parsed(srv[r])]
        /\ UNCHANGED <<session, tr, gr, thr, sock>>

\* the serving thread calls lltf.status() or lltf.set_wave(): nothing keeps a
\* second thread from doing the same on the one module-level lltf
VerbBegin ==
    \E r \in Requests :
        /\ srv[r].pc = "ready"
        /\ srv' = [srv EXCEPT ![r].pc = "in_verb"]
        /\ UNCHANGED <<session, tr, gr, thr, sock>>

\* the response LLTFAPI.post builds from the verb's outcome; an exception of
\* status() leaves post and becomes the framework's 500
Responded(q, res) ==
    CASE res.exc = "" ->
             [q EXCEPT !.pc = "responded", !.ran = q.ran + 1, !.kind = res.kind,
                       !.code = 200]
      [] res.exc = "ValueError" /\ q.command = "set_wave" ->
             [q EXCEPT !.pc = "responded", !.ran = q.ran + 1, !.kind = res.kind,
                       !.code = 400, !.text = res.msg]
      [] q.command = "set_wave" ->
             [q EXCEPT !.pc = "responded", !.ran = q.ran + 1, !.kind = res.kind,
                       !.code = 500, !.text = res.msg]
      [] OTHER ->
             [q EXCEPT !.pc = "responded", !.ran = q.ran + 1, !.kind = res.kind,
                       !.code = 500, !.text = "Internal Server Error"]

\* the verb returns and post returns; the verb's effect on the session is
\* applied here as a whole
Finish(r, res) ==
    /\ Effect(srv[r].command, srv[r].value, res)
    /\ srv' = [srv EXCEPT ![r] = Responded(srv[r], res)]
    /\ tr' = tr
    /\ gr' = gr
    /\ UNCHANGED <<thr, sock>>

VerbEnd ==
    \E r \in Requests :
        /\ srv[r].pc = "in_verb"
        /\ CanCreate
        /\ CanClose
        /\ \E o \in Outcomes(srv[r].command, srv[r].value) :
               Finish(r, Run(srv[r].command, srv[r].value, o))

\* the sender reads the response: set_wavelength looks at r.ok only, status
\* returns the JSON of the body
Received(q) ==
    CASE q.via = "client" /\ q.command = "set_wave" /\ q.code \in 200..299 ->
             [q EXCEPT !.cpc = "done", !.cret = "True"]
      [] q.via = "client" /\ q.command = "set_wave" ->
             Raised(q, "LLTFError", "undetermined")
      [] OTHER -> [q EXCEPT !.cpc = "done", !.cret = "json"]

Receive ==
    \E r \in Requests :
        /\ srv[r].cpc = "waiting"
        /\ srv[r].pc = "responded"
        /\ srv' = [srv EXCEPT ![r] = Received(srv[r])]
        /\ UNCHANGED <<session, tr, gr, thr, sock>>

\* no response within the client's timeout: requests raises ReadTimeout, which
\* is no ConnectionError, and the serving thread goes on
ClientTimeout ==
    \E r \in Requests :
        /\ srv[r].cpc = "waiting"
        /\ srv[r].via = "client"
        /\ srv[r].pc # "responded"
        /\ srv' = [srv EXCEPT ![r] = Raised(srv[r], "ReadTimeout", "Read timed out.")]
        /\ UNCHANGED <<session, tr, gr, thr, sock>>

NextServer ==
    \/ ClientSetWavelength
    \/ ClientStatus
    \/ HttpPost
    \/ Parse
    \/ VerbBegin
    \/ VerbEnd
    \/ Receive
    \/ ClientTimeout

SpecServer == Init /\ [][NextServer]_vars

\* ---------------------------------------------------------- claims C11..C20
\* helpers over the record of an invocation
IdxOf(rec, fn) == {i \in DOMAIN rec.calls : rec.calls[i].fn = fn}
StatusOf(rec, fn) == {rec.calls[i].st : i \in IdxOf(rec, fn)}
Logged(rec, text) == \E i \in DOMAIN rec.log : rec.log[i].text = text
\* the spec's tolerance of 2.5 nm, on integer nanometres
WithinTolerance(a, b) == 2 * (a - b) <= 5 /\ 2 * (b - a) <= 5
\* a stored handle whose native connection has been closed
Stale(h) == nat[h].closed

\* C11: the native destroy operation is invoked at most once on any created
\* handle.
C11_DestroyAtMostOnce ==
    \A h \in Created : nat[h].destroyCalls <= 1

\* C12: at any moment at most one handle has been created by the native
\* library and not yet destroyed.
C12_AtMostOneLiveHandle ==
    Cardinality({h \in Created : nat[h].destroyCalls = 0}) <= 1

\* C13: when the native close reports PE_INVALID_HANDLE, the session clears its
\* handle, does not invoke the native destroy, and surfaces the close error.
C13_InvalidHandleOnClose ==
    (last.op = "_close" /\ PE_INVALID_HANDLE \in StatusOf(last, "PE_Close")) =>
        /\ handle = None
        /\ IdxOf(last, "PE_Destroy") = {}
        /\ last.exc # ""

\* C14: set_wave(W) on a device that is already at W (within tolerance) makes
\* no native set call, logs 'Wavelength already set', and completes without an
\* error.
C14_AlreadySetIsNoOp ==
    [][ (/\ last'.op = "set_wave"
         /\ PE_SUCCESS \in StatusOf(last', "PE_Open")
         /\ WithinTolerance(wave, last'.arg)) =>
            /\ IdxOf(last', "PE_SetWavelength") = {}
            /\ Logged(last', "Wavelength already set")
            /\ last'.exc = "" ]_vars

\* C15: when the native set call returns PE_INVALID_WAVELENGTH, set_wave raises
\* a ValueError and the session is CLOSED afterwards.
C15_InvalidWavelengthRaises ==
    (last.op = "set_wave" /\ PE_INVALID_WAVELENGTH \in StatusOf(last, "PE_SetWavelength")) =>
        /\ last.exc = "ValueError"
        /\ handle = None

\* C16: a status() that immediately follows a successful set_wave(W) succeeds
\* and reports a central wavelength within tolerance of W.
C16_StatusAfterSetWave ==
    [][ (last.op = "set_wave" /\ last.kind = "True" /\ last'.op = "status") =>
            /\ last'.kind = "status"
            /\ WithinTolerance(last'.val[4], last.arg) ]_vars

\* C17: _open() on a session that is already OPEN closes the existing session
\* and opens again, so the handle afterwards differs from the handle before.
C17_OpenWhenOpenReopens ==
    (last.op = "_open" /\ last.before # None) =>
        /\ handle # None
        /\ handle # last.before

\* C18: _open() on a session whose stored handle is invalid raises an error,
\* and afterwards the session holds no handle.
C18_OpenWithInvalidHandle ==
    (last.op = "_open" /\ last.before # None /\ Stale(last.before)) =>
        /\ last.exc # ""
        /\ handle = None

\* C19: the translation of a status code is total: a code among the
\* enumerated ones gets its description, any other code gets 'Unknown Error',
\* and no code returned by a native call raises an exception in the
\* translation.
C19_DescribeTotal ==
    /\ tr.stage \in {"status", "described"} => tr.exc = ""
    /\ (tr.stage = "described" /\ tr.code \notin Enumerated) => tr.text = "Unknown Error"

\* C20: the grating wavelength-range query with a None grating index raises
\* the error 'Grating index not found.' without making a native call.
C20_GratingIndexNotFound ==
    (last.op = "grating_wave" /\ last.arg = 1) =>
        /\ last.exc # ""
        /\ last.msg = "Grating index not found."
        /\ last.calls = <<>>


\* ---------------------------------------------------------- claims C21..C30
\* the requests whose serving thread is inside status() or set_wave()
InVerb == {r \in Requests : srv[r].pc = "in_verb"}
\* the serving thread has answered request r
Answered(r) == srv[r].pc = "responded"
\* the verb of request r ran and did not succeed
VerbFailed(r) == srv[r].ran > 0 /\ srv[r].kind \notin {"True", "status"}
\* request r has the body LLTFClient.set_wavelength sends
ClientShape(r) == srv[r].command = "set_wave" /\ srv[r].key = "data"
\* the device-side set_wave of request r ran and returned True
DeviceSetOk(r) == srv[r].ran > 0 /\ srv[r].kind = "True"

\* C21: requests are serialized: at no time are two invocations of status /
\* set_wave in progress on the shared LLTF instance.
C21_VerbsSerialized ==
    Cardinality(InVerb) <= 1

\* C22: when the verb of a request fails the response is non-2xx and carries
\* an error text; a 2xx response is sent only when the verb succeeded.
C22_FailureIsNon2xx ==
    \A r \in Requests :
        /\ (Answered(r) /\ VerbFailed(r)) =>
               (srv[r].code \notin 200..299 /\ srv[r].text # "")
        /\ (Answered(r) /\ srv[r].code \in 200..299) =>
               (srv[r].ran > 0 /\ ~VerbFailed(r))

\* C23: a POST with the body {"command": "set_wave", "data": W} is accepted
\* and causes exactly one set_wave(W), whose boolean outcome is the response.
C23_ClientBodyAccepted ==
    \A r \in Requests :
        (Answered(r) /\ ClientShape(r)) =>
            /\ srv[r].ran = 1
            /\ srv[r].code = 200
            /\ srv[r].kind \in {"True", "False"}

\* C24: LLTFClient.set_wavelength returns True exactly when the device-side
\* set_wave of its request succeeded, and raises LLTFError otherwise.
C24_ClientTrueIffSet ==
    \A r \in Requests :
        (srv[r].via = "client" /\ srv[r].command = "set_wave" /\ srv[r].cpc = "done") =>
            /\ (srv[r].cret = "True") <=> DeviceSetOk(r)
            /\ ~DeviceSetOk(r) => srv[r].cexc = "LLTFError"


\* C25: a stored handle denotes a native resource that was created and opened
\* and on which neither the native close nor the native destroy has succeeded
\* since.
C25_HandleMatchesNative ==
    handle # None =>
        /\ handle \in Created
        /\ nat[handle].opened
        /\ ~nat[handle].closed
        /\ ~nat[handle].destroyed

\* the methods that start with self._open()
OpenOps == {"_open", "status", "set_wave"}
\* the native calls of the last invocation are the open sequence, as far as
\* it went: create, then getSystemName on the created handle, then open on it
\* with the returned name, each after the success of the one before
OpenOrder ==
    /\ Len(last.calls) >= 1
    /\ IdxOf(last, "PE_Create") = {1}
    /\ IdxOf(last, "PE_GetSystemName") \subseteq {2}
    /\ IdxOf(last, "PE_Open") \subseteq {3}
    /\ IdxOf(last, "PE_GetSystemName") # {} =>
           /\ last.calls[1].st = PE_SUCCESS
           /\ last.calls[2].h = last.calls[1].h
    /\ IdxOf(last, "PE_Open") # {} =>
           /\ last.calls[2].st = PE_SUCCESS
           /\ last.calls[3].h = last.calls[1].h
           /\ last.calls[3].arg = SystemName(last.calls[2].h, last.calls[2].arg)
\* create, getSystemName and open all returned success
OpenedAll ==
    /\ Len(last.calls) >= 3
    /\ \A i \in 1..3 : last.calls[i].st = PE_SUCCESS

\* C26: _open() from CLOSED calls create, getSystemName, open in this order,
\* each only after the success of the one before; a handle is stored only
\* after all three succeeded, it is the handle create produced, and the name
\* passed to the native open is the one getSystemName returned.
C26_OpenOrder ==
    /\ (last.op \in OpenOps /\ last.before = None) => OpenOrder
    /\ (last.op = "_open" /\ last.before = None) =>
           /\ handle # None <=> OpenedAll
           /\ handle # None => handle = last.calls[1].h

C26_Witness ==
    /\ last.op = "_open"
    /\ last.before = None
    /\ handle # None
    /\ Len(last.calls) = 3
    /\ last.calls[3].fn = "PE_Open"

\* C27: _close() from OPEN invokes the native close before the native destroy
\* on the same handle, and the native destroy is never invoked on a handle on
\* which the native close was not invoked first.
C27_CloseBeforeDestroy ==
    /\ \A h \in Created : nat[h].destroyCalls > 0 => nat[h].closeCalls > 0
    /\ \A i \in IdxOf(last, "PE_Destroy") :
           \E j \in IdxOf(last, "PE_Close") : j < i /\ last.calls[j].h = last.calls[i].h
    /\ (last.op = "_close" /\ last.before # None) =>
           /\ last.calls[1].fn = "PE_Close"
           /\ last.calls[1].h = last.before

C27_Witness ==
    /\ last.op = "_close"
    /\ last.before # None
    /\ Len(last.calls) = 2
    /\ last.calls[1].fn = "PE_Close"
    /\ last.calls[2].fn = "PE_Destroy"
    /\ last.calls[2].h = last.before

\* C28: in grating() the first non-success status aborts the operation: no
\* native sub-call is issued after a sub-call returned non-success, and an
\* error is raised.
C28_GratingShortCircuits ==
    last.op = "grating" =>
        \A i \in DOMAIN last.calls :
            last.calls[i].st # PE_SUCCESS =>
                (i = Len(last.calls) /\ last.exc # "")

\* C30: after a successful native set, set_wave(W) reports success exactly
\* when the wavelength it reads back is within the tolerance of W.
C30_ToleranceBand ==
    (/\ last.op = "set_wave"
     /\ PE_SUCCESS \in StatusOf(last, "PE_SetWavelength")
     /\ PE_SUCCESS \in StatusOf(last, "PE_GetWavelength")) =>
        (last.kind = "True" <=> WithinTolerance(wave, last.arg))


\* C29: grating() raises an error exactly when at least one of its three
\* native statuses is not PE_SUCCESS, for every combination of the 14 status
\* codes, and returns (index, name, count) only when all three are PE_SUCCESS.
C29_GratingRaisesIffFailure ==
    gr.stage = "done" =>
        /\ gr.exc # "" <=> (gr.a # PE_SUCCESS \/ gr.b # PE_SUCCESS \/ gr.c # PE_SUCCESS)
        /\ gr.exc = "" => gr.val = StubGrating
        /\ gr.exc # "" => gr.val = <<>>

C29_Witness ==
    /\ gr.stage = "done"
    /\ gr.a = PE_SUCCESS
    /\ gr.b = PE_INVALID_WAVELENGTH
    /\ gr.c = PE_SUCCESS
    /\ gr.exc = "LLTFError"


\* ---------------------------------------------------------- claims C31..C38
\* the spec's second-harmonic range, in nm
InHarmonicRange(w) == w >= 500 /\ w <= 1000
\* every native call of the invocation returned PE_SUCCESS
AllOk(rec) == \A i \in DOMAIN rec.calls : rec.calls[i].st = PE_SUCCESS
\* the facade verbs
Verbs == {"status", "set_wave"}

\* C31: the value passed to the native set-wavelength call is twice the
\* requested wavelength when the request is inside the second-harmonic range
\* (500 to 1000 nm), and the requested value otherwise.
C31_HarmonicDoubling ==
    last.op = "set_wave" =>
        \A i \in IdxOf(last, "PE_SetWavelength") :
            last.calls[i].arg = IF InHarmonicRange(last.arg) THEN 2 * last.arg ELSE last.arg

\* C32: no native call is retried: within one invocation of _open, _close,
\* status or set_wave, an entry point that returned a non-success status is
\* not invoked again.
C32_NoRetry ==
    last.op \in {"_open", "_close", "status", "set_wave"} =>
        \A i \in DOMAIN last.calls : \A j \in DOMAIN last.calls :
            (i < j /\ last.calls[i].st # PE_SUCCESS) => last.calls[j].fn # last.calls[i].fn

C32_Witness ==
    /\ last.op = "status"
    /\ PE_FAILURE \in StatusOf(last, "PE_GetWavelength")
    /\ Len(last.calls) > Cardinality(IdxOf(last, "PE_GetWavelength")) + 5

\* the native calls of the teardown
TeardownFns == {"PE_Close", "PE_Destroy"}
\* a native call of the open or operation step failed, and so did the teardown
BothFailed ==
    /\ \E i \in DOMAIN last.calls :
           last.calls[i].fn \notin TeardownFns /\ last.calls[i].st # PE_SUCCESS
    /\ \E i \in DOMAIN last.calls :
           last.calls[i].fn \in TeardownFns /\ last.calls[i].st # PE_SUCCESS

\* C33: when a verb's open or operation step fails and the close that follows
\* fails too, both failures are reported to the caller or at least logged: the
\* caller gets an error, and the failure it does not get is in the log.
C33_BothFailuresReported ==
    (last.op \in Verbs /\ BothFailed) =>
        /\ last.exc # ""
        /\ last.log # <<>>

\* the native calls status() decides on
StatusChecked ==
    {"PE_Create", "PE_GetSystemName", "PE_Open", "PE_GetWavelength",
     "PE_GetWavelengthRange", "PE_GetGrating", "PE_GetGratingName",
     "PE_getGratingCount", "pe_GetHarmonicFilterEnabled"}

\* C34: status() returns the aggregate record only if create, getSystemName,
\* open, getWavelength, getWavelengthRange, getGrating, getGratingName,
\* getGratingCount and getHarmonicFilterEnabled all returned PE_SUCCESS during
\* the call; a non-success among them yields the failure outcome.
C34_StatusSuccessMeansAllOk ==
    last.op = "status" =>
        /\ last.kind = "status" =>
               \A fn \in StatusChecked : StatusOf(last, fn) = {PE_SUCCESS}
        /\ (\E fn \in StatusChecked : StatusOf(last, fn) \ {PE_SUCCESS} # {}) =>
               last.kind # "status"

C34_Witness ==
    /\ last.op = "status"
    /\ last.kind = "status"
    /\ Len(last.val) = 11
    /\ handle # None

\* with every native call succeeding, of two consecutive status() calls one
\* succeeds and the other fails
Alternates ==
    (last.op = "status" /\ last'.op = "status" /\ AllOk(last) /\ AllOk(last')) =>
        ((last.kind = "status") # (last'.kind = "status"))
\* the last invocation was a verb on a session that was already OPEN
VerbOnOpen == last.op \in Verbs /\ last.before # None
\* the verb did not succeed and made no native query or set call
NeverSucceeds ==
    /\ last.kind \notin {"status", "True"}
    /\ Logged(last, "Already open.")
    /\ \A i \in DOMAIN last.calls :
           last.calls[i].fn \in TeardownFns /\ last.calls[i].h = last.before
ClosesReturnsFalse == VerbOnOpen => (NeverSucceeds /\ handle = None /\ last.kind = "False")
ClosesOrRaises ==
    VerbOnOpen =>
        /\ NeverSucceeds
        /\ Len(last.calls) >= 1
        /\ AllOk(last) => (handle = None /\ last.kind = "False")
        /\ ~AllOk(last) => (handle = last.before /\ last.exc = "LLTFError")

Queries == QueryOps \cup {"library_version"}

\* C37: get_wave, get_range, grating, harmonic_filter, system_count and
\* library_version leave the session's handle and the open / closed state of
\* the native resources unchanged, whether the native call succeeds or fails.
C37_QueriesKeepSession ==
    [][last'.op \in Queries => (handle' = handle /\ nat' = nat /\ nextH' = nextH)]_vars

C37_Witness ==
    /\ last.op = "get_wave"
    /\ last.exc = "LLTFError"
    /\ last.before # None
    /\ handle = last.before


\* C36: with every native call succeeding, the native create is never invoked
\* while another created handle is still undestroyed: two threads in _open()
\* cannot create two native handles.
C36_NoSecondCreate ==
    (\A t \in Threads : thr[t].exc = "") =>
        Cardinality({h \in Created : nat[h].destroyCalls = 0}) <= 1

\* the threads inside the underlying socket's send, sendall or accept
Inside == {t \in Threads : sock.th[t].pc = "inside"}

\* C38: on one RLockSocket at most one thread is inside the underlying
\* socket's send, sendall or accept at a time, and no thread holds the lock
\* once its call has returned or raised.
C38_SocketMutualExclusion ==
    /\ Cardinality(Inside) <= 1
    /\ \A t \in Inside : sock.owner = t
    /\ \A t \in Threads : sock.th[t].pc \in {"idle", "acquire"} => sock.owner # t
    /\ sock.owner = 0 <=> sock.count = 0

C38_Witness ==
    /\ sock.th[1].pc = "inside"
    /\ sock.th[2].pc = "acquire"
    /\ sock.th[2].calls = 2
    /\ sock.th[2].out = ""
    /\ sock.owner = 1

====
